---- MODULE Spec2Model ----
(***************************************************************************)
(* fafserver (src/main.go): an HTTPS file server protected by one random   *)
(* Basic-Auth credential, which exits when its lifetime is over.           *)
(*                                                                         *)
(* The model follows main.go: makeHandler, myFileServer, serveFile,        *)
(* checkLastModified, sortedDirList / sortedFiles and the lifetime timer   *)
(* of main.  Names are kept as in the source.                              *)
(***************************************************************************)
EXTENDS Integers, Sequences, FiniteSets, TLC

VARIABLES
    reqs,   \* one record per connection slot: the request, the handler's locals, the response
    slots,  \* the connection slots the environment uses in this run
    proc,   \* main: the listener, the lifetime timer, the exit code
    ldir,   \* sortedDirList alone: the directory being listed
    lrun,   \* sortedDirList alone: what the Readdir loop collected
    lout,   \* sortedDirList alone: the lines written
    lpc     \* sortedDirList alone: "off", "list", "done"

vars == <<reqs, slots, proc, ldir, lrun, lout, lpc>>

(***************************************************************************)
(* Bounds of the model.                                                    *)
(***************************************************************************)
\* sub-second resolution of a modification time: ticks per second
TicksPerSec == 2
\* If-Modified-Since dates range over seconds 0..MaxSec
MaxSec == 1
\* a listed directory holds at most MaxEntries entries
MaxEntries == 3

(***************************************************************************)
(* Program constants.                                                      *)
(***************************************************************************)
ReaddirCount == 100
StatusNotModified == 304
StatusNotFound == 404
StatusInternalServerError == 500
StatusUnauthorized == 401
StatusMovedPermanently == 301
StatusOK == 200

(***************************************************************************)
(* Names.  A name is an identifier with its bytes, so that                 *)
(* strings.ToLower and the byte-wise < of Go strings are computed.         *)
(***************************************************************************)
Bytes ==
    [n \in {"a.txt", "B.txt", "c", "A.TXT", "b", "docs", "pub", "old", "index.html"} |->
        CASE n = "a.txt"      -> <<97, 46, 116, 120, 116>>
          [] n = "B.txt"      -> <<66, 46, 116, 120, 116>>
          [] n = "c"          -> <<99>>
          [] n = "A.TXT"      -> <<65, 46, 84, 88, 84>>
          [] n = "b"          -> <<98>>
          [] n = "docs"       -> <<100, 111, 99, 115>>
          [] n = "pub"        -> <<112, 117, 98>>
          [] n = "old"        -> <<111, 108, 100>>
          [] n = "index.html" -> <<105, 110, 100, 101, 120, 46, 104, 116, 109, 108>>]

\* strings.ToLower on ASCII bytes
ToLower(s) == [i \in DOMAIN s |-> IF s[i] \in 65..90 THEN s[i] + 32 ELSE s[i]]

\* Go's < on strings: byte-wise lexicographic
RECURSIVE StrLess(_, _)
StrLess(a, b) ==
    IF Len(b) = 0 THEN FALSE
    ELSE IF Len(a) = 0 THEN TRUE
    ELSE IF a[1] # b[1] THEN a[1] < b[1]
    ELSE StrLess(Tail(a), Tail(b))

StrLeq(a, b) == a = b \/ StrLess(a, b)

(***************************************************************************)
(* sortedFiles: Less, and sort.Sort, which for fewer than 7 elements is    *)
(* the insertion sort of package sort.                                     *)
(***************************************************************************)
LessCaseSensitive(x, y) == StrLess(Bytes[x.name], Bytes[y.name])

Less(x, y) == StrLess(ToLower(Bytes[x.name]), ToLower(Bytes[y.name]))

\* one pass of insertionSort's inner loop: x moves left while Less(x, left neighbour)
RECURSIVE InsertLeft(_, _)
InsertLeft(s, x) ==
    IF Len(s) = 0 THEN <<x>>
    ELSE IF Less(x, s[Len(s)])
         THEN InsertLeft(SubSeq(s, 1, Len(s) - 1), x) \o <<s[Len(s)]>>
         ELSE s \o <<x>>

RECURSIVE SortFrom(_, _)
SortFrom(done, rest) ==
    IF Len(rest) = 0 THEN done ELSE SortFrom(InsertLeft(done, rest[1]), Tail(rest))

Sort(s) == SortFrom(<<>>, s)

(***************************************************************************)
(* f.Readdir(n): at most n of the entries not yet returned, in any order;  *)
(* an empty slice comes with an error (io.EOF at the end, or a failure),   *)
(* and a failure may also come with entries already read.                  *)
(***************************************************************************)
Range(s) == {s[i] : i \in DOMAIN s}

Min(a, b) == IF a < b THEN a ELSE b

\* the sequences of k distinct elements of S
RECURSIVE Arrangements(_, _)
Arrangements(S, k) ==
    IF k = 0 THEN {<<>>}
    ELSE UNION {{<<x>> \o t : t \in Arrangements(S \ {x}, k - 1)} : x \in S}

Readdir(rest, n) ==
    LET sizes == 1..Min(n, Cardinality(rest))
        batches == UNION {Arrangements(rest, k) : k \in sizes}
    IN  {[batch |-> b, err |-> "nil"] : b \in batches}
        \cup {[batch |-> b, err |-> "fail"] : b \in batches \cup {<<>>}}
        \cup (IF rest = {} THEN {[batch |-> <<>>, err |-> "EOF"]} ELSE {})

\* the loop of sortedDirList: what sdirs holds when it breaks, and whether it
\* broke on a failed read rather than at the end of the directory
RECURSIVE ReaddirLoopFrom(_, _)
ReaddirLoopFrom(rest, sdirs) ==
    UNION {IF o.err # "nil" \/ Len(o.batch) = 0
           THEN {[sdirs |-> sdirs, failed |-> o.err = "fail"]}
           ELSE ReaddirLoopFrom(rest \ Range(o.batch), sdirs \o o.batch)
           : o \in Readdir(rest, ReaddirCount)}

\* a listing that reads the directory once only
ReaddirLoopOnce(entries) ==
    {IF o.err # "nil" \/ Len(o.batch) = 0
     THEN [sdirs |-> <<>>, failed |-> o.err = "fail"]
     ELSE [sdirs |-> o.batch, failed |-> FALSE]
     : o \in Readdir(entries, ReaddirCount)}

ReaddirLoop(entries) == ReaddirLoopFrom(entries, <<>>)

\* the line written for one entry: the name, with "/" after a directory's
Line(d) == [name |-> d.name, slash |-> d.isDir]

\* the bytes of a written line
LineBytes(l) == IF l.slash THEN Bytes[l.name] \o <<47>> ELSE Bytes[l.name]

\* sortedDirList: every (collected entries, lines written) the call can produce
sortedDirList(entries) ==
    {LET sorted == Sort(run.sdirs)
     IN  [read |-> run.sdirs, failed |-> run.failed,
          lines |-> [i \in DOMAIN sorted |-> Line(sorted[i])]]
     : run \in ReaddirLoop(entries)}

(***************************************************************************)
(* Paths.  A path is the sequence of its segments; "/" is <<>>.            *)
(***************************************************************************)
\* rootdir, _ = os.Getwd()
rootdir == <<"www">>

\* path.Clean / filepath.Clean of a rooted path: ".." drops the segment before
\* it and is dropped itself at the root
RECURSIVE CleanFrom(_, _)
CleanFrom(segs, acc) ==
    IF Len(segs) = 0 THEN acc
    ELSE IF segs[1] = ".."
         THEN CleanFrom(Tail(segs), IF Len(acc) = 0 THEN acc ELSE SubSeq(acc, 1, Len(acc) - 1))
         ELSE CleanFrom(Tail(segs), acc \o <<segs[1]>>)

Clean(segs) == CleanFrom(segs, <<>>)

\* filepath.Join(rootdir, url): the elements joined, then cleaned
Join(root, url) == Clean(root \o url)

\* filepath.Split: the directory and the last element ("" for "/")
Split(p) ==
    IF Len(p) = 0 THEN [dir |-> <<>>, file |-> <<>>]
    ELSE [dir |-> SubSeq(p, 1, Len(p) - 1), file |-> <<p[Len(p)]>>]

IsPrefix(p, q) == Len(p) <= Len(q) /\ SubSeq(q, 1, Len(p)) = p

\* q is rootdir or lies below it
UnderRoot(q) == IsPrefix(rootdir, q)

(***************************************************************************)
(* Time.  A time.Time is a number of ticks since the zero time; an HTTP    *)
(* date carries whole seconds.                                             *)
(***************************************************************************)
At(sec, sub) == sec * TicksPerSec + sub

IsZero(t) == t = At(0, 0)

NoHeader == [kind |-> "absent", sec |-> 0]

Garbage == [kind |-> "garbage", sec |-> 0]

HttpDate(sec) == [kind |-> "date", sec |-> sec]

\* modtime.UTC().Format(http.TimeFormat): the sub-second part is dropped
Format(t) == HttpDate(t \div TicksPerSec)

\* time.Parse(http.TimeFormat, header)
Parse(h) ==
    IF h.kind = "date" THEN [err |-> FALSE, t |-> At(h.sec, 0)]
    ELSE [err |-> TRUE, t |-> At(0, 0)]

(***************************************************************************)
(* The file system the server runs on: the process's directory /www and,   *)
(* beside it, /etc/passwd.  /www/docs has an index.html, /www/pub has a    *)
(* directory of that name, and /www/docs/old is an empty directory whose   *)
(* modification time is the zero time.                                     *)
(***************************************************************************)
File(t) == [isDir |-> FALSE, modTime |-> t]

Dir(t) == [isDir |-> TRUE, modTime |-> t]

FS ==
    (<<>> :> Dir(At(1, 0)))
    @@ (<<"etc">> :> Dir(At(1, 0)))
    @@ (<<"etc", "passwd">> :> File(At(1, 0)))
    @@ (<<"www">> :> Dir(At(1, 1)))
    @@ (<<"www", "a.txt">> :> File(At(0, 1)))
    @@ (<<"www", "docs">> :> Dir(At(1, 0)))
    @@ (<<"www", "docs", "index.html">> :> File(At(1, 1)))
    @@ (<<"www", "docs", "old">> :> Dir(At(0, 0)))
    @@ (<<"www", "pub">> :> Dir(At(0, 1)))
    @@ (<<"www", "pub", "index.html">> :> Dir(At(1, 0)))
    @@ (<<"www", "pub", "index.html", "b">> :> File(At(1, 1)))

Exists(p) == p \in DOMAIN FS

BaseName(p) == IF Len(p) = 0 THEN "/" ELSE p[Len(p)]

\* os.FileInfo of p
Info(p) == [name |-> BaseName(p), isDir |-> FS[p].isDir, modTime |-> FS[p].modTime]

\* the entries of directory p, as Readdir's FileInfos
Entries(p) ==
    {Info(q) : q \in {c \in DOMAIN FS : Len(c) = Len(p) + 1 /\ IsPrefix(p, c)}}

\* http.Dir(dir).Open(name): name is cleaned as a rooted path and joined to dir
DirOpen(dir, name) == dir \o Clean(name)

(***************************************************************************)
(* Basic authentication (package basicauth).  The Authorization header is  *)
(* absent or carries "Basic " and the encoding of user:pass.               *)
(***************************************************************************)
Tokens == {"t1", "t2"}

\* up, set once by initUserPass from basicauth.New(user + ":" + pass)
up == [Username |-> "t1", Password |-> "t2"]

NoAuth == [scheme |-> "", userpass |-> <<>>]

BasicHeader(user, pass) == [scheme |-> "Basic", userpass |-> <<user, ":", pass>>]

AuthHeaders == {NoAuth} \cup {BasicHeader(u, p) : u \in Tokens, p \in Tokens}

\* basicAuth(r): the user and password the header decodes to
basicAuth(h) ==
    IF h.scheme = "Basic" /\ Len(h.userpass) = 3 /\ h.userpass[2] = ":"
    THEN [err |-> FALSE, user |-> h.userpass[1], pass |-> h.userpass[3]]
    ELSE [err |-> TRUE, user |-> "", pass |-> ""]

\* up.IsAllowed(r)
IsAllowed(h) ==
    LET c == basicAuth(h)
    IN  ~c.err /\ c.user = up.Username /\ c.pass = up.Password

(***************************************************************************)
(* Responses.  The status is 0 until WriteHeader, or the first write of    *)
(* the body, sets it; it is set once.                                      *)
(***************************************************************************)
Part(kind) == [kind |-> kind, name |-> "", slash |-> FALSE, path |-> <<>>]

EmptyResp ==
    [status |-> 0, server |-> FALSE, wwwAuth |-> "", lastModified |-> NoHeader,
     location |-> <<>>, contentType |-> "", noSniff |-> FALSE, body |-> <<>>]

\* w.WriteHeader(code)
WriteHeader(w, code) == IF w.status = 0 THEN [w EXCEPT !.status = code] ELSE w

\* w.Write / fmt.Fprintf(w, ...)
Write(w, parts) ==
    [WriteHeader(w, StatusOK) EXCEPT !.body = w.body \o parts]

\* http.Error(w, msg, code)
Error(w, kind, code) ==
    Write(WriteHeader([w EXCEPT !.contentType = "text/plain", !.noSniff = TRUE], code),
          <<Part(kind)>>)

\* http.NotFound(w, r)
NotFound(w) == Error(w, "404 page not found", StatusNotFound)

\* basicauth.SendUnauthorized(w, r, "simpleHttpd")
SendUnauthorized(w, realm) ==
    Write(WriteHeader([w EXCEPT !.wwwAuth = realm], StatusUnauthorized),
          <<Part("Unauthorized")>>)

\* the 301 of the ServeMux for a path that is not clean
Redirect(w, to) ==
    WriteHeader([w EXCEPT !.location = to], StatusMovedPermanently)

(***************************************************************************)
(* checkLastModified(w, r, modtime): whether the request is now complete,  *)
(* and the response.                                                       *)
(***************************************************************************)
\* the same with mtime <= t in place of mtime < t+1s
checkLastModifiedLeq(w, ims, modtime) ==
    IF IsZero(modtime) THEN [done |-> FALSE, w |-> w]
    ELSE IF ~Parse(ims).err /\ modtime <= Parse(ims).t
         THEN [done |-> TRUE, w |-> WriteHeader(w, StatusNotModified)]
         ELSE [done |-> FALSE, w |-> [w EXCEPT !.lastModified = Format(modtime)]]

\* the same without the modtime.IsZero() test
checkLastModifiedNoZero(w, ims, modtime) ==
    IF ~Parse(ims).err /\ modtime < Parse(ims).t + At(1, 0)
    THEN [done |-> TRUE, w |-> WriteHeader(w, StatusNotModified)]
    ELSE [done |-> FALSE, w |-> [w EXCEPT !.lastModified = Format(modtime)]]

checkLastModified(w, ims, modtime) ==
    IF IsZero(modtime) THEN [done |-> FALSE, w |-> w]
    ELSE IF ~Parse(ims).err /\ modtime < Parse(ims).t + At(1, 0)
         THEN [done |-> TRUE, w |-> WriteHeader(w, StatusNotModified)]
         ELSE [done |-> FALSE, w |-> [w EXCEPT !.lastModified = Format(modtime)]]

\* http.ServeContent(w, r, name, modtime, content): the conditional check of
\* the library, then the content of the open file
ServeContent(w, ims, modtime, content) ==
    IF ~IsZero(modtime) /\ ~Parse(ims).err /\ modtime < Parse(ims).t + At(1, 0)
    THEN WriteHeader(w, StatusNotModified)
    ELSE Write(IF IsZero(modtime) THEN w ELSE [w EXCEPT !.lastModified = Format(modtime)],
               <<[Part("file") EXCEPT !.path = content]>>)

(***************************************************************************)
(* Requests.  Each connection slot holds the request in hand, the locals   *)
(* of makeHandler's closure and of serveFile, and the response.            *)
(***************************************************************************)
Reqs == {"c1", "c2"}

Methods == {"GET", "CONNECT"}

Paths ==
    {<<>>, <<"a.txt">>, <<"docs">>, <<"pub">>, <<"docs", "old">>, <<"nope">>,
     <<"secret", "..", "..", "etc", "passwd">>}

Headers == {NoHeader, Garbage} \cup {HttpDate(s) : s \in 0..MaxSec}

\* what may be recovered: no panic, a panic with an error, a panic with another value
PanicValues == {"error", "string"}

NoHandle == [var |-> "none", path |-> <<>>]

Handle(var, path) == [var |-> var, path |-> path]

NoInfo == [name |-> "", isDir |-> FALSE, modTime |-> At(0, 0)]

IdleReq ==
    [pc |-> "idle", method |-> "", path |-> <<>>, auth |-> NoAuth, ims |-> NoHeader,
     fn |-> FALSE, dir |-> <<>>, name |-> <<>>, f |-> NoHandle, d |-> NoInfo,
     stat |-> "none", index |-> "none", served |-> "none", listFailed |-> FALSE,
     open |-> {}, opened |-> {}, defers |-> <<>>, panic |-> "none", w |-> EmptyResp]

Running == ~proc.exited

Step(r, q) == reqs' = [reqs EXCEPT ![r] = q]

\* a handler that serves whoever asks
makeHandlerAllowsAll(auth) == TRUE

\* makeHandler: whether fn is called
makeHandlerAllows(auth) == IsAllowed(auth)

\* A request arrives.  The ServeMux registered by http.Handle("/", ...)
\* redirects a request other than CONNECT whose path is not clean to the clean
\* path; every other request reaches makeHandler's closure, which sets the
\* Server header and calls fn or SendUnauthorized.
ServeHTTP(r) ==
    /\ Running /\ proc.main = "ListenAndServeTLS"
    /\ r \in slots /\ reqs[r].pc = "idle"
    /\ \E m \in Methods, p \in Paths, a \in AuthHeaders, h \in Headers :
         LET q == [IdleReq EXCEPT !.method = m, !.path = p, !.auth = a, !.ims = h]
             w == [q.w EXCEPT !.server = TRUE]
         IN  IF m # "CONNECT" /\ Clean(p) # p
             THEN Step(r, [q EXCEPT !.pc = "done", !.w = Redirect(q.w, Clean(p))])
             ELSE IF makeHandlerAllows(a)
                  THEN Step(r, [q EXCEPT !.pc = "open", !.fn = TRUE, !.w = w])
                  ELSE Step(r, [q EXCEPT !.pc = "done",
                                         !.w = SendUnauthorized(w, "simpleHttpd")])
    /\ UNCHANGED <<slots, proc, ldir, lrun, lout, lpc>>

\* myFileServer: the directory and file name passed to serveFile
myFileServer(url) == Split(Join(rootdir, url))

\* myFileServer, and serveFile up to fs.Open(name)
Open(r) ==
    /\ Running /\ reqs[r].pc = "open"
    /\ LET q == reqs[r]
           a == myFileServer(q.path)
           target == DirOpen(a.dir, a.file)
           f == Handle("f", target)
       IN  IF ~Exists(target)
           THEN Step(r, [q EXCEPT !.pc = "return", !.dir = a.dir, !.name = a.file,
                                  !.served = "notfound", !.w = NotFound(q.w)])
           ELSE Step(r, [q EXCEPT !.pc = "stat", !.dir = a.dir, !.name = a.file,
                                  !.f = f, !.open = {f}, !.opened = {f},
                                  !.defers = <<[var |-> "f", h |-> f]>>])
    /\ UNCHANGED <<slots, proc, ldir, lrun, lout, lpc>>

\* d, err1 := f.Stat()
Stat(r) ==
    /\ Running /\ reqs[r].pc = "stat"
    /\ LET q == reqs[r]
           d == Info(q.f.path)
       IN  \/ Step(r, [q EXCEPT !.pc = "return", !.stat = "fail",
                                !.served = "notfound", !.w = NotFound(q.w)])
           \/ Step(r, [q EXCEPT !.pc = IF d.isDir THEN "index" ELSE "serve",
                                !.stat = "ok", !.d = d])
    /\ UNCHANGED <<slots, proc, ldir, lrun, lout, lpc>>

\* an index.html that is found and never used
SubstituteNothing(q, ff, dd) == q

\* name = index; d = dd; f = ff
Substitute(q, ff, dd) ==
    [q EXCEPT !.name = q.name \o <<"index.html">>, !.d = dd, !.f = ff]

\* if d.IsDir(): the index.html of the directory
Index(r) ==
    /\ Running /\ reqs[r].pc = "index"
    /\ LET q == reqs[r]
           target == DirOpen(q.dir, q.name \o <<"index.html">>)
           ff == Handle("ff", target)
           o == [q EXCEPT !.pc = "serve", !.open = q.open \cup {ff},
                          !.opened = q.opened \cup {ff},
                          !.defers = q.defers \o <<[var |-> "ff", h |-> ff]>>]
       IN  IF ~Exists(target)
           THEN Step(r, [q EXCEPT !.pc = "serve", !.index = "absent"])
           ELSE \/ Step(r, [o EXCEPT !.index = "statfail"])
                \/ Step(r, Substitute([o EXCEPT !.index = "ok"], ff, Info(target)))
    /\ UNCHANGED <<slots, proc, ldir, lrun, lout, lpc>>

\* the body sortedDirList writes
ListingBody(lines) ==
    <<Part("<pre>")>>
    \o [i \in DOMAIN lines |->
          [Part("line") EXCEPT !.name = lines[i].name, !.slash = lines[i].slash]]
    \o <<Part("</pre>")>>

\* serveFile from "Still a directory?": the listing, or http.ServeContent
Serve(r) ==
    /\ Running /\ reqs[r].pc = "serve"
    /\ LET q == reqs[r]
           c == checkLastModified(q.w, q.ims, q.d.modTime)
       IN  IF q.d.isDir
           THEN IF c.done
                THEN Step(r, [q EXCEPT !.pc = "return", !.served = "notmodified", !.w = c.w])
                ELSE \E run \in sortedDirList(Entries(q.f.path)) :
                       Step(r, [q EXCEPT !.pc = "return", !.served = "list",
                                         !.listFailed = run.failed,
                                         !.w = Write([c.w EXCEPT !.contentType = "text/html"],
                                                     ListingBody(run.lines))])
           ELSE Step(r, [q EXCEPT !.pc = "return", !.served = "content",
                                  !.w = ServeContent(q.w, q.ims, q.d.modTime, q.f.path)])
    /\ UNCHANGED <<slots, proc, ldir, lrun, lout, lpc>>

\* a deferred close that looks f up when it runs
DeferredCloseLate(e, f) == IF e.var = "f" THEN f ELSE e.h

\* defer f.Close(), defer ff.Close(): the receiver is the file the variable
\* held when the defer statement ran
DeferredClose(e, f) == e.h

\* the deferred calls of serveFile, last first
RunDefers(q) == q.open \ {DeferredClose(q.defers[i], q.f) : i \in DOMAIN q.defers}

\* the deferred function of makeHandler's closure
Recover(q) ==
    IF q.panic = "error"
    THEN Error(q.w, "e.Error()", StatusInternalServerError)
    ELSE q.w

\* the deferred calls of serveFile run, then makeHandler's
Unwind(q) == [q EXCEPT !.pc = "done", !.open = RunDefers(q), !.w = Recover(q)]

\* serveFile and fn return
Return(r) ==
    /\ Running /\ reqs[r].pc = "return"
    /\ Step(r, Unwind(reqs[r]))
    /\ UNCHANGED <<slots, proc, ldir, lrun, lout, lpc>>

\* a panic while fn runs, before anything of the response is written: the
\* stack unwinds through the deferred calls
Panic(r) ==
    /\ Running /\ reqs[r].pc \in {"open", "stat", "index", "serve"}
    /\ \E v \in PanicValues :
         Step(r, Unwind([reqs[r] EXCEPT !.panic = v]))
    /\ UNCHANGED <<slots, proc, ldir, lrun, lout, lpc>>

\* a panic inside sortedDirList, after "<pre>" has been written
PanicInListing(r) ==
    /\ Running /\ reqs[r].pc = "serve" /\ reqs[r].d.isDir
    /\ LET q == reqs[r]
           c == checkLastModified(q.w, q.ims, q.d.modTime)
       IN  /\ ~c.done
           /\ \E v \in PanicValues :
                Step(r, Unwind([q EXCEPT !.panic = v,
                                         !.w = Write([c.w EXCEPT !.contentType = "text/html"],
                                                     <<Part("<pre>")>>)]))
    /\ UNCHANGED <<slots, proc, ldir, lrun, lout, lpc>>

\* the response is sent and the slot takes the next request
Finish(r) ==
    /\ Running /\ reqs[r].pc = "done"
    /\ Step(r, IdleReq)
    /\ UNCHANGED <<slots, proc, ldir, lrun, lout, lpc>>

(***************************************************************************)
(* main: the lifetime timer and the listener.                              *)
(***************************************************************************)
Exit(code) == proc' = [proc EXCEPT !.exited = TRUE, !.exitCode = code]

\* http.ListenAndServeTLS returns an error
ListenerFail ==
    /\ Running /\ proc.main = "ListenAndServeTLS"
    /\ proc' = [proc EXCEPT !.main = "t.Stop", !.listenerFailed = TRUE]
    /\ UNCHANGED <<reqs, slots, ldir, lrun, lout, lpc>>

\* t.Stop(): the timer is removed if it has not fired
TimerStop ==
    /\ Running /\ proc.main = "t.Stop"
    /\ proc' = [proc EXCEPT !.main = "log.Fatal",
                            !.timer = IF proc.timer = "pending" THEN "stopped" ELSE @]
    /\ UNCHANGED <<reqs, slots, ldir, lrun, lout, lpc>>

\* log.Fatal(err)
LogFatal ==
    /\ Running /\ proc.main = "log.Fatal"
    /\ Exit(1)
    /\ UNCHANGED <<reqs, slots, ldir, lrun, lout, lpc>>

\* the duration *flagDie has passed: the timer starts its function in a goroutine
TimerFire ==
    /\ Running /\ proc.timer = "pending"
    /\ proc' = [proc EXCEPT !.timer = "fired"]
    /\ UNCHANGED <<reqs, slots, ldir, lrun, lout, lpc>>

\* the timer's function: log.Printf, os.Exit(0)
TimerExit ==
    /\ Running /\ proc.timer = "fired"
    /\ Exit(0)
    /\ UNCHANGED <<reqs, slots, ldir, lrun, lout, lpc>>

InitProc ==
    [main |-> "ListenAndServeTLS", timer |-> "pending", listenerFailed |-> FALSE,
     exited |-> FALSE, exitCode |-> -1]

(***************************************************************************)
(* sortedDirList alone, on every directory of at most MaxEntries entries.  *)
(***************************************************************************)
EntryPool ==
    {[name |-> "a.txt", isDir |-> FALSE, modTime |-> At(0, 1)],
     [name |-> "B.txt", isDir |-> FALSE, modTime |-> At(1, 0)],
     [name |-> "c", isDir |-> TRUE, modTime |-> At(1, 1)],
     [name |-> "A.TXT", isDir |-> FALSE, modTime |-> At(0, 0)],
     [name |-> "b", isDir |-> TRUE, modTime |-> At(0, 1)]}

Directories == {S \in SUBSET EntryPool : Cardinality(S) <= MaxEntries}

ListDir ==
    /\ lpc = "list"
    /\ \E run \in sortedDirList(ldir) :
         /\ lrun' = [read |-> run.read, failed |-> run.failed]
         /\ lout' = run.lines
    /\ lpc' = "done"
    /\ UNCHANGED <<reqs, slots, proc, ldir>>

(***************************************************************************)
(* Specifications.                                                         *)
(***************************************************************************)
NoListing ==
    /\ ldir = {} /\ lrun = [read |-> <<>>, failed |-> FALSE] /\ lout = <<>> /\ lpc = "off"

\* the server after main has started the timer and the listener
Init ==
    /\ reqs = [r \in Reqs |-> IdleReq]
    /\ slots = Reqs
    /\ proc = InitProc
    /\ NoListing

Serving ==
    \E r \in Reqs :
        \/ ServeHTTP(r) \/ Open(r) \/ Stat(r) \/ Index(r)
        \/ Serve(r) \/ Return(r) \/ Finish(r)

Next == Serving

\* requests only: the process stays up
Spec == Init /\ [][Next]_vars

Faults == \E r \in Reqs : Panic(r) \/ PanicInListing(r)

NextFault == Serving \/ Faults

\* requests in which fn may panic
SpecFault == Init /\ [][NextFault]_vars

InitLife ==
    /\ reqs = [r \in Reqs |-> IdleReq]
    /\ slots = {"c1"}
    /\ proc = InitProc
    /\ NoListing

Lifetime == ListenerFail \/ TimerStop \/ LogFatal \/ TimerFire \/ TimerExit

NextLife == Serving \/ Lifetime

\* the whole process: one connection, the listener and the timer
SpecLife == InitLife /\ [][NextLife]_vars

InitList ==
    /\ reqs = [r \in Reqs |-> IdleReq]
    /\ slots = {}
    /\ proc = InitProc
    /\ ldir \in Directories
    /\ lrun = [read |-> <<>>, failed |-> FALSE] /\ lout = <<>> /\ lpc = "list"

NextList == ListDir

\* sortedDirList on its own
SpecList == InitList /\ [][NextList]_vars

(***************************************************************************)
(* Properties.                                                             *)
(***************************************************************************)
Done(q) == q.pc = "done"

\* the request was handed to makeHandler's closure (the ServeMux did not redirect it)
Handled(q) == q.pc # "idle" /\ (q.method = "CONNECT" \/ Clean(q.path) = q.path)

\* the header is the encoding of the pair generated at startup
RightCredentials(h) == h = [scheme |-> "Basic", userpass |-> <<"t1", ":", "t2">>]

\* fn ran and reached the resource it serves: the open and the stat succeeded
Resolved(q) == q.fn /\ q.stat = "ok"

HasListing(w) == \E i \in DOMAIN w.body : w.body[i].kind \in {"<pre>", "line", "</pre>"}

HasFile(w) == \E i \in DOMAIN w.body : w.body[i].kind = "file"

FileBody(path) == <<[kind |-> "file", name |-> "", slash |-> FALSE, path |-> path]>>

\* the one response every request without the right credentials gets
UnauthorizedResponse ==
    [status |-> 401, server |-> TRUE, wwwAuth |-> "simpleHttpd", lastModified |-> NoHeader,
     location |-> <<>>, contentType |-> "", noSniff |-> FALSE,
     body |-> <<[kind |-> "Unauthorized", name |-> "", slash |-> FALSE, path |-> <<>>]>>]

\* C1: a request that reaches makeHandler without the right credentials gets
\* the 401 response with the WWW-Authenticate challenge, the same one whatever
\* is wrong or absent and whatever the path and method; fn is not called and
\* no file is opened, listed or sent.
C1_UnauthorizedUniform ==
    \A r \in Reqs :
        LET q == reqs[r]
        IN  (Handled(q) /\ ~RightCredentials(q.auth)) =>
                /\ Done(q)
                /\ q.w = UnauthorizedResponse
                /\ ~q.fn /\ q.opened = {} /\ q.served = "none"

\* two requests in hand, one with a wrong user on a path with "..", one with
\* no header at all, answered alike
C1_Witness ==
    /\ Done(reqs["c1"]) /\ Done(reqs["c2"])
    /\ reqs["c1"].auth = BasicHeader("t2", "t2") /\ reqs["c1"].method = "CONNECT"
    /\ reqs["c1"].path = <<"secret", "..", "..", "etc", "passwd">>
    /\ reqs["c2"].auth = NoAuth /\ reqs["c2"].method = "GET" /\ reqs["c2"].path = <<"a.txt">>
    /\ reqs["c1"].w = reqs["c2"].w /\ reqs["c1"].w.status = 401

\* the path climbs above the directory it starts from
RECURSIVE ClimbsOut(_, _)
ClimbsOut(segs, depth) ==
    IF Len(segs) = 0 THEN FALSE
    ELSE IF segs[1] = ".."
         THEN depth = 0 \/ ClimbsOut(Tail(segs), depth - 1)
         ELSE ClimbsOut(Tail(segs), depth + 1)

\* C2: an authenticated request whose path climbs out of the root with ".."
\* is answered 404, and neither what myFileServer passes to serveFile nor any
\* file it opens lies outside rootdir.
C2_TraversalNotFound ==
    \A r \in Reqs :
        LET q == reqs[r]
        IN  (q.fn /\ q.pc \in {"stat", "index", "serve", "return", "done"}
                  /\ ClimbsOut(q.path, 0)) =>
                /\ UnderRoot(q.dir \o q.name)
                /\ \A h \in q.opened : UnderRoot(h.path)
                /\ Done(q) => (q.w.status = 404 /\ ~HasFile(q.w) /\ ~HasListing(q.w))

\* the index.html of the directory the request resolves to
IndexPath(q) == Join(rootdir, q.path) \o <<"index.html">>

\* the Last-Modified header that goes with a modification time
LastModifiedOf(t) == IF IsZero(t) THEN NoHeader ELSE HttpDate(t \div TicksPerSec)

\* the index was served by the file-content path: no listing, and a 200 carries
\* the file and its modification time
ServedAsFile(q) ==
    /\ q.served = "content"
    /\ ~HasListing(q.w)
    /\ q.w.status \in {200, 304}
    /\ q.w.status = 200 =>
          /\ q.w.body = FileBody(IndexPath(q))
          /\ q.w.lastModified = LastModifiedOf(FS[IndexPath(q)].modTime)
    /\ q.w.status = 304 => q.w.body = <<>>

\* C3 as stated: whenever index.html of the directory opens and stats, it is
\* served as a file, never a listing, whatever kind of entry it is.
C3_IndexAlwaysFile ==
    \A r \in Reqs :
        LET q == reqs[r]
        IN  (Done(q) /\ Resolved(q) /\ q.index = "ok") => ServedAsFile(q)

\* C3 amended: whenever index.html of the directory opens and stats and is not
\* itself a directory, it is served as a file with its own modification time,
\* never a listing; an index.html that is a directory is listed (or 304).
C3_IndexFileServed ==
    \A r \in Reqs :
        LET q == reqs[r]
        IN  (Done(q) /\ Resolved(q) /\ q.index = "ok") =>
                IF FS[IndexPath(q)].isDir
                THEN q.served \in {"list", "notmodified"} /\ ~HasFile(q.w)
                ELSE ServedAsFile(q)

C3_Witness ==
    /\ Done(reqs["c1"]) /\ reqs["c1"].path = <<"docs">> /\ reqs["c1"].index = "ok"
    /\ reqs["c1"].w.status = 200
    /\ reqs["c1"].w.body = FileBody(<<"www", "docs", "index.html">>)

\* C4: the lines sortedDirList writes are in ascending order of the
\* lower-cased names, whatever order Readdir returned the entries in; a.txt,
\* B.txt and directory c are listed a.txt, B.txt, c/.
C4_ListingSorted ==
    lpc = "done" =>
        /\ \A i \in 1..(Len(lout) - 1) :
              StrLeq(ToLower(Bytes[lout[i].name]), ToLower(Bytes[lout[i + 1].name]))
        /\ ({e.name : e \in ldir} = {"a.txt", "B.txt", "c"} /\ ~lrun.failed) =>
              [i \in DOMAIN lout |-> LineBytes(lout[i])]
                  = <<Bytes["a.txt"], Bytes["B.txt"], Bytes["c"] \o <<47>>>>

\* the file system returned c, B.txt, a.txt, in that order
C4_Witness ==
    /\ lpc = "done" /\ ~lrun.failed
    /\ [i \in DOMAIN lrun.read |-> lrun.read[i].name] = <<"c", "B.txt", "a.txt">>
    /\ [i \in DOMAIN lout |-> lout[i].name] = <<"a.txt", "B.txt", "c">>

\* the request's If-Modified-Since is a date t with modTime < t + 1s
Fresh(q) == q.ims.kind = "date" /\ q.d.modTime < (q.ims.sec + 1) * TicksPerSec

NotModified(q) == q.w.status = 304 /\ q.w.body = <<>>

\* C5 as stated: every authenticated request for an existing resource whose
\* If-Modified-Since is a date t with modTime < t + 1s is answered 304 with no body.
C5_FreshIsNotModified ==
    \A r \in Reqs :
        LET q == reqs[r]
        IN  (Done(q) /\ Resolved(q) /\ Fresh(q)) => NotModified(q)

\* C5 amended: the same for a resource whose modification time is not the zero
\* time; a request that carries the Last-Modified value an earlier response
\* for the same resource emitted is answered 304 with no body; a resource with
\* the zero modification time is sent in full, without Last-Modified.
C5_FreshNonZeroIsNotModified ==
    /\ \A r \in Reqs :
          LET q == reqs[r]
          IN  (Done(q) /\ Resolved(q) /\ Fresh(q) /\ q.d.modTime # 0) => NotModified(q)
    /\ \A r1 \in Reqs, r2 \in Reqs :
          LET q1 == reqs[r1]
              q2 == reqs[r2]
          IN  (/\ Done(q1) /\ Resolved(q1) /\ Done(q2) /\ Resolved(q2)
               /\ q1.f.path = q2.f.path
               /\ q1.w.lastModified.kind = "date"
               /\ q2.ims = q1.w.lastModified) => NotModified(q2)
    /\ \A r \in Reqs :
          LET q == reqs[r]
          IN  (Done(q) /\ Resolved(q) /\ q.d.modTime = 0) =>
                  q.w.status = 200 /\ q.w.lastModified = NoHeader

\* a.txt is sent with its Last-Modified, and asked for again with that date
C5_Witness ==
    /\ Done(reqs["c1"]) /\ reqs["c1"].path = <<"a.txt">> /\ reqs["c1"].w.status = 200
    /\ reqs["c1"].w.lastModified.kind = "date"
    /\ Done(reqs["c2"]) /\ reqs["c2"].path = <<"a.txt">>
    /\ reqs["c2"].ims = reqs["c1"].w.lastModified
    /\ reqs["c2"].w.status = 304 /\ reqs["c2"].w.body = <<>>

\* C6: an authenticated request whose If-Modified-Since is absent or is no
\* HTTP date, or whose resource has the zero modification time, is never
\* answered 304: the listing or the file is sent with status 200.
C6_NoShortCircuit ==
    \A r \in Reqs :
        LET q == reqs[r]
        IN  (Done(q) /\ Resolved(q) /\ (q.ims.kind # "date" \/ q.d.modTime = 0)) =>
                /\ q.w.status = 200
                /\ \/ q.served = "list" /\ HasListing(q.w)
                   \/ q.served = "content" /\ q.w.body = FileBody(q.f.path)

\* a directory with the zero modification time, asked for with a date
C6_Witness ==
    /\ Done(reqs["c1"]) /\ reqs["c1"].path = <<"docs", "old">> /\ reqs["c1"].index = "absent"
    /\ reqs["c1"].ims = HttpDate(1) /\ reqs["c1"].d.modTime = 0
    /\ reqs["c1"].served = "list" /\ reqs["c1"].w.status = 200
    /\ Done(reqs["c2"]) /\ reqs["c2"].path = <<>> /\ reqs["c2"].ims = Garbage
    /\ reqs["c2"].served = "list" /\ reqs["c2"].w.status = 200

\* C7: a request in which fn panicked, whatever the panic's value, is answered
\* 500 with the failure's message.
C7_PanicGives500 ==
    \A r \in Reqs :
        LET q == reqs[r]
        IN  (Done(q) /\ q.panic # "none") =>
                /\ q.w.status = 500
                /\ \E i \in DOMAIN q.w.body : q.w.body[i].kind = "e.Error()"

\* C8: a process whose listener failed never ends with exit code 0.
C8_FailedListenerNeverExitsZero ==
    (proc.exited /\ proc.listenerFailed) => proc.exitCode # 0

\* the lines are the entries of the directory, each once, "/" after a directory
ListsAll == 
    /\ Len(lout) = Cardinality(ldir)
    /\ Range(lout) = {[name |-> e.name, slash |-> e.isDir] : e \in ldir}

C10_HandlesClosed ==
    \A r \in Reqs :
        LET q == reqs[r]
        IN  /\ q.open \subseteq q.opened
            /\ q.pc \in {"idle", "done"} => q.open = {}

\* a request that opened the directory and its index.html and then panicked
\* is finished, while another has its file open
C10_Witness ==
    /\ Done(reqs["c1"]) /\ Cardinality(reqs["c1"].opened) = 2
    /\ reqs["c1"].panic = "error" /\ reqs["c1"].open = {}
    /\ reqs["c2"].pc = "serve" /\ reqs["c2"].open # {}

====
